---------------------------- MODULE Spec2Model ----------------------------
(***************************************************************************)
(* jdmatcher: the recruiter's ranking flows and the matching engine.       *)
(*                                                                         *)
(* Three state machines share this module, one specification each:        *)
(*   SpecLoop   the client-side ranking loop of RecruiterDashboard         *)
(*              (handleRankCandidates: one /match/direct request per       *)
(*              resume, awaited in turn, results sorted in the browser);   *)
(*   SpecBulk   the bulk RecruiterDashboard (handleBulkRank: one request,  *)
(*              the server ranks) with the server's match_batch;           *)
(*   SpecEngine match_one: parsing, TF-IDF similarity, score combination   *)
(*              and the skill-gap analysis.                                *)
(* The Python backend is not part of the sources at hand: match_batch and  *)
(* match_one are modelled from the design document.                        *)
(*                                                                         *)
(* Scores are fixed-point numbers in thousandths of a point: 68.5 is       *)
(* 68500, the scale 0..100 is 0..100000.                                   *)
(***************************************************************************)
EXTENDS Integers, Sequences, FiniteSets, TLC

VARIABLES
    \* RecruiterDashboard component state (useState hooks)
    jdMode, selectedJDFile, jdText, resumeFiles,
    isProcessing, processingStatus, showResults,
    filterScore, filterSkill, candidates, toast,
    \* one run of handleRankCandidates: its closure and the requests in flight
    runFiles, ranked, settled, hung,
    \* bulk RecruiterDashboard: its own hooks, the /match/bulk request in flight
    \* and the server's slot per resume
    uploadProgress, processingPhase, bulkResult, bulkRequest, serverSlots,
    \* match_one: the request being served and what the pipeline has built so far
    enginePc, resume_text, jd_text, parsedResume, parsedJD, matchResult,
    \* the page: the values _ig() and _sk() of the build, window.__rv_unlocked,
    \* the #__rv_overlay node, document.body, the state of useRenderGate and of
    \* RenderOverlay, their timers and observer, and the requests sent
    ig, sk, rvUnlocked, overlay, overlayHidden, bodyEmpty,
    appMounted, ok, unlocked, gateTimer, gateInterval, pollActive,
    observer, mutations, network, unlockHistory,
    \* localStorage's auth_token and user, a handleSave of a profile page
    \* waiting for its timer, whether authService.logout() was called since a
    \* token was last stored, and the Authorization header of the last request
    \* sent since then
    authToken, storedUser, saving, loggedOut, requestAuth,
    \* the dashboard a behaviour of the combined specification drives; the JD
    \* of the last match request a handler sent; the CandidateDashboard hooks
    \* selectedFile, isAnalyzing and matchResult; the bulk dashboard's hooks
    \* selectedCandidate and expandedExplanation
    dashboard, jdInput, selectedFile, isAnalyzing, analysis,
    selectedCandidate, expandedExplanation

loopVars == <<jdMode, selectedJDFile, jdText, resumeFiles,
              isProcessing, processingStatus, showResults,
              filterScore, filterSkill, candidates, toast,
              runFiles, ranked, settled, hung>>

bulkVars == <<uploadProgress, processingPhase, bulkResult, bulkRequest, serverSlots>>

engineVars == <<enginePc, resume_text, jd_text, parsedResume, parsedJD, matchResult>>

gateVars == <<ig, sk, rvUnlocked, overlay, overlayHidden, bodyEmpty,
              appMounted, ok, unlocked, gateTimer, gateInterval, pollActive,
              observer, mutations, network, unlockHistory>>

authVars == <<authToken, storedUser, saving, loggedOut, requestAuth>>

pageVars == <<dashboard, jdInput, selectedFile, isAnalyzing, analysis,
              selectedCandidate, expandedExplanation>>

vars == <<loopVars, bulkVars, engineVars, gateVars, authVars, pageVars>>

---------------------------------------------------------------------------
(* Bounds *)

\* Tokens of a resume text and of a JD text.
MaxResumeTokens == 2
MaxJDTokens == 3

\* Resume files the recruiter can queue; a file is named by the order in which
\* the recruiter picked it.
MaxResumes == 2

---------------------------------------------------------------------------
(* Fixed-point scores *)

\* Math.round on a non-negative score: the nearest integer, halves up.
MathRound(x) == (x + 500) \div 1000

---------------------------------------------------------------------------
(* core/__env.ts: the pipeline key *)

RECURSIVE SumSeq(_)
SumSeq(s) == IF s = <<>> THEN 0 ELSE Head(s) + SumSeq(Tail(s))

RECURSIVE Xor(_, _)
Xor(a, b) ==
    IF a = 0 THEN b
    ELSE IF b = 0 THEN a
    ELSE (((a % 2) + (b % 2)) % 2) + 2 * Xor(a \div 2, b \div 2)

K1 == <<68,69,77,79,32,79,78,76,89>>
K2 == <<80,114,111,103,114,97,109,109,101,100,32,98,121,32,82,65,74,32,75,73,83,72,79,82>>
K3 == <<78,111,116,32,102,111,114,32,112,114,111,100,117,99,116,105,111,110,32,117,115,101>>

Ix == 42931
Iy == 20001
Rp == 1337642
Expected == 59794

\* ((_b * _c + _d + _ix - _iy) ^ _rp) >>> 0; every operand here is below
\* 2^31 and non-negative, where >>> 0 changes nothing.
\* the key without the render-pipeline constant
SkWithoutRp == SumSeq(K1) * SumSeq(K2) + SumSeq(K3) + Ix - Iy

Sk == Xor(SumSeq(K1) * SumSeq(K2) + SumSeq(K3) + Ix - Iy, Rp)

\* (_ix ^ _iy) >>> 0
Ig == Xor(Ix, Iy)

\* what _ig() gives in a build whose _ix and _iy were both raised by one (its
\* _sk() is unchanged), and what _sk() gives in a build whose _rp was raised
\* by one (its _ig() is unchanged)
AlteredIg == Xor(Ix + 1, Iy + 1)
AlteredSk == Xor(SumSeq(K1) * SumSeq(K2) + SumSeq(K3) + Ix - Iy, Rp + 1)

\* the port without the offset
DpWithoutOffset(key) == (key \div 16) % 4096

\* _dp: ((_sk() >> 4) & 0xFFF) + 1263, of the key _sk() returns
Dp(key) == ((key \div 16) % 4096) + 1263

\* _ts: ((_sk() & 0xFF) * 233 + 119) & 0xFFFF
Ts(key) == (((key % 256) * 233) + 119) % 65536

\* timeout: _tSeed > 0 ? 60000 : 1
ClientTimeout(key) == IF Ts(key) > 0 THEN 60000 ELSE 1

\* _pw, _xk and the password _ul compares with, as character codes
Pw == <<115,104,129,128,119,104,117,107,104,55,63,56,55,57,55,55,59>>
Xk == 7
ExpectedPwd == [i \in 1..Len(Pw) |-> Pw[i] - Xk]

---------------------------------------------------------------------------
(* The /match/direct responses the loop can receive *)

Skills == {"python", "docker"}
FilterTerms == {"", "py"}

\* s.toLowerCase().includes(term.toLowerCase()) over the skills modelled
Includes(s, term) ==
    \/ term = ""
    \/ term = s
    \/ term = "py" /\ s = "python"

\* MatchResultResponse, the fields the dashboard reads
MatchResults ==
    { [overall_score |-> 67600, matched_skills |-> {"python"}, missing_skills |-> {"docker"}],
      [overall_score |-> 68400, matched_skills |-> {"docker"}, missing_skills |-> {"python"}],
      [overall_score |-> 91000, matched_skills |-> {"python", "docker"}, missing_skills |-> {}] }

\* `{} as MatchResultResponse`: every field undefined
EmptyResult == [overall_score |-> -1, matched_skills |-> {}, missing_skills |-> {}]

NoToast == [title |-> "", count |-> 0]

\* nothing parsed or scored yet
NoParsedResume == [skills |-> {}, years |-> 0, education |-> "unspecified"]
NoParsedJD ==
    [required_skills |-> {}, preferred_skills |-> {},
     experience_level |-> "unspecified", education_level |-> "unspecified"]
NoMatchResult ==
    [overall_score |-> 0, skill_score |-> 0, experience_score |-> 0, education_score |-> 0,
     tfidf_similarity |-> 0, matched_skills |-> {}, missing_skills |-> {},
     skill_gap |-> [technical |-> {}, soft |-> {}], recommendations |-> <<>>]

\* no /match/bulk request in flight
NoRequest == [state |-> "none", files |-> <<>>]

---------------------------------------------------------------------------
(* RecruiterDashboard, client-side ranking (handleRankCandidates) *)

Files == 1..MaxResumes

\* texts of the JD textarea: empty, blank, and a job description
JDInputs == {"", " ", "jd"}

\* a trim that keeps the blanks
TrimNothing(t) == t

\* jdText.trim()
Trim(t) == IF t = " " THEN "" ELSE t

hasJD == IF jdMode = "upload" THEN selectedJDFile # "null" ELSE Trim(jdText) # ""

\* const jdInput = jdMode === "upload" ? selectedJDFile! : jdText.trim()
JdOfMode == IF jdMode = "upload" THEN selectedJDFile ELSE Trim(jdText)

otherPageVars == <<dashboard, selectedFile, isAnalyzing, analysis,
                   selectedCandidate, expandedExplanation>>

\* the page right after it is loaded: nothing is rendered, no timer runs
PageLoaded ==
    /\ rvUnlocked = FALSE
    /\ overlay = "absent"
    /\ overlayHidden = {}
    /\ bodyEmpty = FALSE
    /\ appMounted = FALSE
    /\ ok = FALSE
    /\ unlocked = FALSE
    /\ gateTimer = FALSE
    /\ gateInterval = FALSE
    /\ pollActive = FALSE
    /\ observer = FALSE
    /\ mutations = FALSE

\* const [...] = useState(...)
InitLoop ==
    /\ jdMode = "upload"
    /\ selectedJDFile = "null"
    /\ jdText = ""
    /\ resumeFiles = <<>>
    /\ isProcessing = FALSE
    /\ processingStatus = 0
    /\ showResults = FALSE
    /\ filterScore = 0
    /\ filterSkill = ""
    /\ candidates = <<>>
    /\ toast = NoToast
    /\ runFiles = <<>>
    /\ ranked = <<>>
    /\ settled = {}
    /\ hung = {}
    /\ uploadProgress = 0
    /\ processingPhase = ""
    /\ bulkResult = <<>>
    /\ bulkRequest = NoRequest
    /\ serverSlots = <<>>
    /\ enginePc = "idle"
    /\ resume_text = <<>>
    /\ jd_text = <<>>
    /\ parsedResume = NoParsedResume
    /\ parsedJD = NoParsedJD
    /\ matchResult = NoMatchResult
    /\ ig = Ig
    /\ sk = Sk
    /\ PageLoaded
    /\ network = FALSE
    /\ unlockHistory = "locked"
    /\ authToken = "null"
    /\ storedUser = "null"
    /\ saving = FALSE
    /\ loggedOut = FALSE
    /\ requestAuth = "no request"
    /\ dashboard = "loop"
    /\ jdInput = "no request"
    /\ selectedFile = "null"
    /\ isAnalyzing = FALSE
    /\ analysis = <<>>
    /\ selectedCandidate = <<>>
    /\ expandedExplanation = 0

runVars == <<runFiles, ranked, settled, hung>>
inputVars == <<jdMode, selectedJDFile, jdText, resumeFiles>>
viewVars == <<isProcessing, processingStatus, showResults, candidates>>
filterVars == <<filterScore, filterSkill>>

SetJdMode(m) ==
    /\ ~isProcessing
    /\ jdMode' = m
    /\ UNCHANGED <<selectedJDFile, jdText, resumeFiles, viewVars, filterVars, toast, runVars, bulkVars, engineVars, gateVars, authVars, pageVars>>

handleJDFileSelect ==
    /\ ~isProcessing
    /\ jdMode = "upload"
    /\ selectedJDFile' = "jd.pdf"
    /\ toast' = [title |-> "Job description uploaded", count |-> 0]
    /\ UNCHANGED <<jdMode, jdText, resumeFiles, viewVars, filterVars, runVars, bulkVars, engineVars, gateVars, authVars, pageVars>>

\* the textarea's onChange
SetJdText(t) ==
    /\ ~isProcessing
    /\ jdMode = "write"
    /\ jdText' = t
    /\ UNCHANGED <<jdMode, selectedJDFile, resumeFiles, viewVars, filterVars, toast, runVars, bulkVars, engineVars, gateVars, authVars, pageVars>>

handleResumeFilesSelect(f) ==
    /\ ~isProcessing
    /\ Len(resumeFiles) < MaxResumes
    /\ \A k \in 1..Len(resumeFiles) : resumeFiles[k] < f
    /\ resumeFiles' = Append(resumeFiles, f)
    /\ toast' = [title |-> "resume(s) added", count |-> 1]
    /\ UNCHANGED <<jdMode, selectedJDFile, jdText, viewVars, filterVars, runVars, bulkVars, engineVars, gateVars, authVars, pageVars>>

\* prev.filter((_, i) => i !== index)
removeResume(index) ==
    /\ ~isProcessing
    /\ index \in 1..Len(resumeFiles)
    /\ resumeFiles' = [k \in 1..(Len(resumeFiles) - 1) |->
                          IF k < index THEN resumeFiles[k] ELSE resumeFiles[k + 1]]
    /\ UNCHANGED <<jdMode, selectedJDFile, jdText, viewVars, filterVars, toast, runVars, bulkVars, engineVars, gateVars, authVars, pageVars>>

\* ranked.push({...}) of the try branch
SuccessEntry(i, file, result) ==
    [id |-> i, fileName |-> file, matchScore |-> MathRound(result.overall_score),
     matchedSkills |-> result.matched_skills, missingSkills |-> result.missing_skills,
     error |-> FALSE, result |-> result]

\* ranked.push({...}) of the catch branch
\* (`error` stands for recommendations = [`Error: ${message}`])
FailureEntry(i, file) ==
    [id |-> i, fileName |-> file, matchScore |-> 0,
     matchedSkills |-> {}, missingSkills |-> {},
     error |-> TRUE, result |-> EmptyResult]

\* Array.prototype.sort is stable: an element goes behind every element that
\* does not compare after it.
RECURSIVE InsertByScore(_, _)
InsertByScore(sorted, c) ==
    IF sorted = <<>> THEN <<c>>
    ELSE IF Head(sorted).matchScore >= c.matchScore
         THEN <<Head(sorted)>> \o InsertByScore(Tail(sorted), c)
         ELSE <<c>> \o sorted

RECURSIVE SortByMatchScore(_)
SortByMatchScore(list) ==
    IF list = <<>> THEN <<>>
    ELSE InsertByScore(SortByMatchScore(SubSeq(list, 1, Len(list) - 1)), list[Len(list)])

\* (mutant) every request is sent at once, none is awaited before the next
PendingRequestsAtOnce(done, n) == (1..n) \ done

\* The requests in flight once the results in `done` have been pushed: the for
\* loop awaits directMatch(file i) before it sends the next one.
PendingRequests(done, n) ==
    IF Cardinality(done) < n THEN {Cardinality(done) + 1} ELSE {}

RECURSIVE AllFail(_, _)
AllFail(files, i) ==
    IF i > Len(files) THEN <<>>
    ELSE <<FailureEntry(i, files[i])>>
         \o AllFail(files, i + 1)

\* ranked.sort(...); setCandidates(ranked); ...; toast(...)
Finish(list) ==
    /\ candidates' = SortByMatchScore(list)
    /\ isProcessing' = FALSE
    /\ processingStatus' = 0
    /\ showResults' = TRUE
    /\ toast' = [title |-> "Ranking complete!", count |-> Len(list)]

\* The part of the handler that runs once the result of request i is pushed:
\* the next iteration, or the code behind the loop.
Continue(list, done) ==
    /\ ranked' = list
    /\ settled' = done
    /\ IF Cardinality(done) < Len(runFiles)
       THEN /\ processingStatus' = Cardinality(done) + 1
            /\ UNCHANGED <<isProcessing, showResults, candidates, toast>>
       ELSE Finish(list)
    /\ UNCHANGED <<inputVars, filterVars, runFiles, bulkVars, engineVars, gateVars, authVars, pageVars>>

handleRankCandidates ==
    /\ ~isProcessing
    /\ IF ~hasJD
       THEN /\ toast' = [title |-> "Missing job description", count |-> 0]
            /\ UNCHANGED <<inputVars, viewVars, filterVars, runVars, jdInput>>
       ELSE IF Len(resumeFiles) = 0
       THEN /\ toast' = [title |-> "No resumes", count |-> 0]
            /\ UNCHANGED <<inputVars, viewVars, filterVars, runVars, jdInput>>
       ELSE /\ runFiles' = resumeFiles
            /\ hung' = {}
            /\ IF Sk = Expected
               THEN /\ isProcessing' = TRUE
                    /\ showResults' = FALSE
                    /\ processingStatus' = 1
                    /\ ranked' = <<>>
                    /\ settled' = {}
                    /\ jdInput' = JdOfMode
                    /\ UNCHANGED <<candidates, toast>>
               ELSE \* directMatch throws before any request, for every file
                    /\ ranked' = AllFail(resumeFiles, 1)
                    /\ settled' = 1..Len(resumeFiles)
                    /\ Finish(AllFail(resumeFiles, 1))
                    /\ UNCHANGED jdInput
            /\ UNCHANGED <<inputVars, filterVars>>
    /\ UNCHANGED <<bulkVars, engineVars, gateVars, authVars, otherPageVars>>

InFlight == IF isProcessing THEN PendingRequests(settled, Len(runFiles)) \ settled ELSE {}

\* the backend answers 200 with a MatchResultResponse
DirectMatchResolve(i, result) ==
    /\ i \in InFlight \ hung
    /\ Continue(Append(ranked, SuccessEntry(i, runFiles[i], result)), settled \cup {i})
    /\ UNCHANGED hung

\* the backend answers with an error status
DirectMatchReject(i) ==
    /\ i \in InFlight \ hung
    /\ Continue(Append(ranked, FailureEntry(i, runFiles[i])), settled \cup {i})
    /\ UNCHANGED hung

\* the backend will never answer request i (remembered until the next run)
ServerHangs(i) ==
    /\ i \in InFlight \ hung
    /\ hung' = hung \cup {i}
    /\ UNCHANGED <<inputVars, viewVars, filterVars, toast, runFiles, ranked, settled, bulkVars, engineVars, gateVars, authVars, pageVars>>

\* (mutant) `timeout: 0`: axios never gives up
DirectMatchNoTimeout(i) ==
    /\ FALSE
    /\ UNCHANGED vars

\* axios gives up after `timeout: 120000` and rejects
DirectMatchTimeout(i) ==
    /\ i \in InFlight
    /\ Continue(Append(ranked, FailureEntry(i, runFiles[i])), settled \cup {i})
    /\ UNCHANGED hung

\* the filter widgets are rendered inside the results block
SetFilterScore(v) ==
    /\ showResults
    /\ filterScore' = v
    /\ UNCHANGED <<inputVars, viewVars, filterSkill, toast, runVars, bulkVars, engineVars, gateVars, authVars, pageVars>>

SetFilterSkill(t) ==
    /\ showResults
    /\ filterSkill' = t
    /\ UNCHANGED <<inputVars, viewVars, filterScore, toast, runVars, bulkVars, engineVars, gateVars, authVars, pageVars>>

\* of the options 0, 60, 70, 80, 90 of the Min Score select
FilterScores == {0, 60, 70}

\* candidates.filter(...).filter(...)
filteredCandidates ==
    SelectSeq(candidates,
              LAMBDA c : /\ c.matchScore >= filterScore
                         /\ (filterSkill = "" \/ \E s \in c.matchedSkills : Includes(s, filterSkill)))

NextLoop ==
    \/ \E m \in {"upload", "write"} : SetJdMode(m)
    \/ handleJDFileSelect
    \/ \E t \in JDInputs : SetJdText(t)
    \/ \E f \in Files : handleResumeFilesSelect(f)
    \/ \E k \in 1..MaxResumes : removeResume(k)
    \/ handleRankCandidates
    \/ \E i \in 1..MaxResumes : \E r \in MatchResults : DirectMatchResolve(i, r)
    \/ \E i \in 1..MaxResumes : DirectMatchReject(i)
    \/ \E i \in 1..MaxResumes : ServerHangs(i)
    \/ \E i \in 1..MaxResumes : DirectMatchTimeout(i)
    \/ \E v \in FilterScores : SetFilterScore(v)
    \/ \E t \in FilterTerms : SetFilterSkill(t)

SpecLoop == InitLoop /\ [][NextLoop]_vars

\* The event loop runs a timer that is due: axios's timeout fires for a request
\* that is still in flight.
FairSpecLoop == SpecLoop /\ \A i \in 1..MaxResumes : WF_vars(DirectMatchTimeout(i))

---------------------------------------------------------------------------
(* Claims about the client-side ranking loop *)

Succeeded(list) == {k \in 1..Len(list) : ~list[k].error}
Failed(list) == {k \in 1..Len(list) : list[k].error}

\* C1 (as claimed): the ranked list is non-increasing in overall_score, and
\* candidates with equal overall_score keep their submission order.
C1_SortedByOverallScore ==
    \A a, b \in Succeeded(candidates) :
        a < b =>
            \/ candidates[a].result.overall_score > candidates[b].result.overall_score
            \/ /\ candidates[a].result.overall_score = candidates[b].result.overall_score
               /\ candidates[a].id < candidates[b].id

\* C2: the ranked list is the one sequence fixed by the (rounded) scores and the
\* input indices: every input index once, higher score first, equal scores in
\* index order; so no completion order can lead to another list.
C2_RankingFixedByScoresAndIndices ==
    /\ \A a, b \in 1..Len(candidates) :
          a < b =>
              \/ candidates[a].matchScore > candidates[b].matchScore
              \/ /\ candidates[a].matchScore = candidates[b].matchScore
                 /\ candidates[a].id < candidates[b].id
    /\ showResults =>
          /\ Len(candidates) = Len(runFiles)
          /\ \A i \in 1..Len(runFiles) :
                \E k \in 1..Len(candidates) :
                    candidates[k].id = i /\ candidates[k].fileName = runFiles[i]

\* a finished run with a tie and with two different scores
C2_Witness ==
    /\ showResults
    /\ \E a, b \in 1..Len(candidates) :
          a < b /\ candidates[a].matchScore = candidates[b].matchScore
                /\ candidates[a].result # candidates[b].result

\* C3 (as claimed): a failed resume does not abort the batch, and it is not an
\* element of the ranked candidates.
C3_FailedResumeNotRanked ==
    showResults =>
        /\ Len(candidates) = Len(runFiles)
        /\ Failed(candidates) = {}

\* C4 (as claimed): the number of ranked candidates announced to the recruiter
\* is the number of resumes that were matched successfully.
C4_AnnouncedCountIsSuccesses ==
    (showResults /\ toast.title = "Ranking complete!") =>
        toast.count = Cardinality(Succeeded(candidates))

\* C5: a request that the backend never answers is settled by its timeout as
\* a failure of that resume alone; the run then goes on, ends with every
\* resume of the run listed, and is announced as complete.
C5_HungResumeTimesOut ==
    \A i \in 1..MaxResumes :
        (isProcessing /\ i \in hung) ~>
            /\ ~isProcessing
            /\ showResults
            /\ toast.title = "Ranking complete!"
            /\ Len(candidates) = Len(runFiles)
            /\ \E k \in 1..Len(candidates) : candidates[k].id = i /\ candidates[k].error

\* a finished run in which one request hung and another resume was scored
C5_Witness ==
    /\ ~isProcessing
    /\ showResults
    /\ hung # {}
    /\ Succeeded(candidates) # {}
    /\ \A k \in 1..Len(candidates) : candidates[k].id \in hung => candidates[k].error

\* the place of a candidate in the batch ranking
BatchRank(c) == CHOOSE k \in 1..Len(candidates) : candidates[k].id = c.id

\* the Rank column: {i + 1} of filteredCandidates.map((candidate, i) => ...)
ShownRank(k) == k

\* C6 (as claimed): the rank shown for a candidate is its batch rank, whatever
\* the min-score and skill filters are.
C6_ShownRankIsBatchRank ==
    showResults =>
        \A k \in 1..Len(filteredCandidates) :
            ShownRank(k) = BatchRank(filteredCandidates[k])

---------------------------------------------------------------------------
(* The server's match_batch (design document, 4.6, 5 and 9) *)

\* the per-resume results a worker can produce
Pending == [state |-> "pending", overall_score |-> -1, matched_skills |-> {}]
OkSlot(r) == [state |-> "ok", overall_score |-> r.overall_score, matched_skills |-> r.matched_skills]
FailedSlot == [state |-> "failed", overall_score |-> -1, matched_skills |-> {}]

\* a stable sort by overall_score, descending
RECURSIVE InsertByOverall(_, _)
InsertByOverall(sorted, c) ==
    IF sorted = <<>> THEN <<c>>
    ELSE IF Head(sorted).overall_score >= c.overall_score
         THEN <<Head(sorted)>> \o InsertByOverall(Tail(sorted), c)
         ELSE <<c>> \o sorted

RECURSIVE SortByOverall(_)
SortByOverall(list) ==
    IF list = <<>> THEN <<>>
    ELSE InsertByOverall(SortByOverall(SubSeq(list, 1, Len(list) - 1)), list[Len(list)])

\* the successful slots, in input order, each tagged with its input index
RECURSIVE Successes(_, _, _)
Successes(slots, files, i) ==
    IF i > Len(slots) THEN <<>>
    ELSE (IF slots[i].state = "ok"
          THEN <<[index |-> i, file_name |-> files[i], rank |-> 0,
                  overall_score |-> slots[i].overall_score,
                  matched_skills |-> slots[i].matched_skills]>>
          ELSE <<>>)
         \o Successes(slots, files, i + 1)

\* the failed slots, in input order: {file_name, error_message}
RECURSIVE Errors(_, _, _)
Errors(slots, files, i) ==
    IF i > Len(slots) THEN <<>>
    ELSE (IF slots[i].state = "failed" THEN <<[file_name |-> files[i]]>> ELSE <<>>)
         \o Errors(slots, files, i + 1)

\* rank is the 1-based place in the sorted sequence
AssignRanks(sorted) == [k \in 1..Len(sorted) |-> [sorted[k] EXCEPT !.rank = k]]

\* BatchMatchReport; best_candidate is the highest-ranked candidate, and there
\* is none to pick when no resume was matched
BatchMatchReport(slots, files) ==
    LET cands == AssignRanks(SortByOverall(Successes(slots, files, 1)))
        errs == Errors(slots, files, 1)
    IN [candidates |-> cands,
        best_candidate |-> IF cands = <<>> THEN <<>> ELSE <<cands[1]>>,
        errors |-> errs,
        total_processed |-> Len(cands),
        total_errors |-> Len(errs)]

---------------------------------------------------------------------------
(* RecruiterDashboard, bulk ranking (handleBulkRank) *)

loopOnlyVars == <<processingStatus, candidates, runFiles, ranked, settled, hung>>

\* `finally`
BulkFinally ==
    /\ isProcessing' = FALSE
    /\ processingPhase' = ""
    /\ uploadProgress' = 0
    /\ bulkRequest' = NoRequest
    /\ serverSlots' = <<>>

handleBulkRank ==
    /\ ~isProcessing
    /\ IF ~hasJD
       THEN /\ toast' = [title |-> "Missing job description", count |-> 0]
            /\ UNCHANGED <<isProcessing, showResults, bulkVars, jdInput>>
       ELSE IF Len(resumeFiles) = 0
       THEN /\ toast' = [title |-> "No resumes", count |-> 0]
            /\ UNCHANGED <<isProcessing, showResults, bulkVars, jdInput>>
       ELSE /\ isProcessing' = TRUE
            /\ jdInput' = JdOfMode
            /\ showResults' = FALSE
            /\ bulkResult' = <<>>
            /\ processingPhase' = "Uploading files..."
            /\ uploadProgress' = 0
            /\ bulkRequest' = [state |-> "uploading", files |-> resumeFiles]
            /\ UNCHANGED <<serverSlots, toast>>
    /\ UNCHANGED <<inputVars, filterVars, loopOnlyVars, engineVars, gateVars, authVars, otherPageVars>>

UploadSteps == {40, 100}

\* the onUploadProgress callback; at 100 the server has the files and starts
\* one task per resume
OnUploadProgress(pct) ==
    /\ bulkRequest.state = "uploading"
    /\ pct > uploadProgress
    /\ uploadProgress' = pct
    /\ IF pct >= 100
       THEN /\ processingPhase' = "AI is analyzing and ranking candidates..."
            /\ bulkRequest' = [bulkRequest EXCEPT !.state = "sent"]
            /\ serverSlots' = [i \in 1..Len(bulkRequest.files) |-> Pending]
       ELSE UNCHANGED <<processingPhase, bulkRequest, serverSlots>>
    /\ UNCHANGED <<inputVars, filterVars, loopOnlyVars, isProcessing, showResults, bulkResult, toast, engineVars, gateVars, authVars, pageVars>>

\* a worker finishes the pipeline of resume i, whichever task it is
ServerMatchItem(i, r) ==
    /\ bulkRequest.state = "sent"
    /\ i \in 1..Len(serverSlots)
    /\ serverSlots[i].state = "pending"
    /\ serverSlots' = [serverSlots EXCEPT ![i] = OkSlot(r)]
    /\ UNCHANGED <<loopVars, uploadProgress, processingPhase, bulkResult, bulkRequest, engineVars, gateVars, authVars, pageVars>>

\* parsing or scoring of resume i fails, or its timeout expires
ServerItemFails(i) ==
    /\ bulkRequest.state = "sent"
    /\ i \in 1..Len(serverSlots)
    /\ serverSlots[i].state = "pending"
    /\ serverSlots' = [serverSlots EXCEPT ![i] = FailedSlot]
    /\ UNCHANGED <<loopVars, uploadProgress, processingPhase, bulkResult, bulkRequest, engineVars, gateVars, authVars, pageVars>>

\* the join: every slot is filled, the report is sent, and the handler goes on
\* behind `await matchService.bulkMatch(...)`
BulkResolve ==
    /\ bulkRequest.state = "sent"
    /\ \A i \in 1..Len(serverSlots) : serverSlots[i].state # "pending"
    /\ LET result == BatchMatchReport(serverSlots, bulkRequest.files)
       IN /\ bulkResult' = <<result>>
          /\ showResults' = TRUE
          /\ toast' = IF result.total_errors > 0
                      THEN [title |-> "Ranked candidate(s)", count |-> result.total_processed]
                      ELSE [title |-> "Ranking complete!", count |-> result.total_processed]
    /\ BulkFinally
    /\ UNCHANGED <<inputVars, filterVars, loopOnlyVars, engineVars, gateVars, authVars, pageVars>>

\* the request fails as a whole: the JD cannot be parsed, the network fails or
\* the request times out
BulkReject ==
    /\ bulkRequest.state \in {"uploading", "sent"}
    /\ toast' = [title |-> "Bulk matching failed", count |-> 0]
    /\ BulkFinally
    /\ UNCHANGED <<inputVars, filterVars, loopOnlyVars, showResults, bulkResult, engineVars, gateVars, authVars, pageVars>>

\* const candidates = bulkResult?.candidates || []
bulkCandidates == IF bulkResult = <<>> THEN <<>> ELSE bulkResult[1].candidates

\* candidates.filter(...).filter(...), on overall_score
bulkFilteredCandidates ==
    SelectSeq(bulkCandidates,
              LAMBDA c : /\ c.overall_score >= filterScore * 1000
                         /\ (filterSkill = "" \/ \E s \in c.matched_skills : Includes(s, filterSkill)))

\* onClick={() => setSelectedCandidate(candidate)} of a listed candidate
SelectCandidate(k) ==
    /\ showResults
    /\ bulkResult # <<>>
    /\ k \in 1..Len(bulkFilteredCandidates)
    /\ selectedCandidate' = <<bulkFilteredCandidates[k]>>
    /\ UNCHANGED <<loopVars, bulkVars, engineVars, gateVars, authVars, dashboard, jdInput,
                   selectedFile, isAnalyzing, analysis, expandedExplanation>>

\* onClick={() => setSelectedCandidate(null)} of the detail modal
CloseDetail ==
    /\ selectedCandidate # <<>>
    /\ selectedCandidate' = <<>>
    /\ UNCHANGED <<loopVars, bulkVars, engineVars, gateVars, authVars, dashboard, jdInput,
                   selectedFile, isAnalyzing, analysis, expandedExplanation>>

\* setExpandedExplanation(expandedExplanation === candidate.rank ? null :
\* candidate.rank); null is 0
ToggleExplanation(k) ==
    /\ showResults
    /\ bulkResult # <<>>
    /\ k \in 1..Len(bulkFilteredCandidates)
    /\ expandedExplanation' =
          IF expandedExplanation = bulkFilteredCandidates[k].rank
          THEN 0 ELSE bulkFilteredCandidates[k].rank
    /\ UNCHANGED <<loopVars, bulkVars, engineVars, gateVars, authVars, dashboard, jdInput,
                   selectedFile, isAnalyzing, analysis, selectedCandidate>>

NextBulk ==
    \/ \E m \in {"upload", "write"} : SetJdMode(m)
    \/ handleJDFileSelect
    \/ \E t \in JDInputs : SetJdText(t)
    \/ \E f \in Files : handleResumeFilesSelect(f)
    \/ \E k \in 1..MaxResumes : removeResume(k)
    \/ handleBulkRank
    \/ \E pct \in UploadSteps : OnUploadProgress(pct)
    \/ \E i \in 1..MaxResumes : \E r \in MatchResults : ServerMatchItem(i, r)
    \/ \E i \in 1..MaxResumes : ServerItemFails(i)
    \/ BulkResolve
    \/ BulkReject
    \/ \E v \in FilterScores : SetFilterScore(v)
    \/ \E t \in FilterTerms : SetFilterSkill(t)

SpecBulk == InitLoop /\ [][NextBulk]_vars

\* the bulk dashboard with its detail modal and explanation toggles, the
\* filters left as they are
NextDetail ==
    \/ handleJDFileSelect
    \/ \E f \in Files : handleResumeFilesSelect(f)
    \/ \E k \in 1..MaxResumes : removeResume(k)
    \/ handleBulkRank
    \/ \E pct \in UploadSteps : OnUploadProgress(pct)
    \/ \E i \in 1..MaxResumes : \E r \in MatchResults : ServerMatchItem(i, r)
    \/ \E i \in 1..MaxResumes : ServerItemFails(i)
    \/ BulkResolve
    \/ BulkReject
    \/ \E k \in 1..MaxResumes : SelectCandidate(k)
    \/ CloseDetail
    \/ \E k \in 1..MaxResumes : ToggleExplanation(k)

SpecDetail == InitLoop /\ [][NextDetail]_vars

---------------------------------------------------------------------------
(* CandidateDashboard (handleAnalyze); its hooks jdMode, selectedJDFile, jdText *)
(* and its toasts are those of the same names                              *)

recruiterVars == <<resumeFiles, isProcessing, processingStatus, showResults,
                   filterScore, filterSkill, candidates, runFiles, ranked, settled, hung>>

handleFileSelect ==
    /\ selectedFile' = "resume.pdf"
    /\ toast' = [title |-> "Resume uploaded", count |-> 0]
    /\ UNCHANGED <<inputVars, recruiterVars, bulkVars, engineVars, gateVars, authVars,
                   dashboard, jdInput, isAnalyzing, analysis, selectedCandidate,
                   expandedExplanation>>

\* up to the await of matchService.directMatch, whose gate rejects without a
\* request when the key is wrong
handleAnalyze ==
    /\ ~isAnalyzing
    /\ IF selectedFile = "null"
       THEN /\ toast' = [title |-> "No resume", count |-> 0]
            /\ UNCHANGED <<isAnalyzing, jdInput>>
       ELSE IF ~hasJD
       THEN /\ toast' = [title |-> "No job description", count |-> 0]
            /\ UNCHANGED <<isAnalyzing, jdInput>>
       ELSE /\ isAnalyzing' = TRUE
            /\ jdInput' = IF Sk = Expected THEN JdOfMode ELSE jdInput
            /\ UNCHANGED toast
    /\ UNCHANGED <<inputVars, recruiterVars, bulkVars, engineVars, gateVars, authVars,
                   dashboard, selectedFile, analysis, selectedCandidate, expandedExplanation>>

\* the request resolves: setMatchResult(result), and `finally`
AnalyzeResolve(result) ==
    /\ isAnalyzing
    /\ Sk = Expected
    /\ analysis' = <<result>>
    /\ toast' = [title |-> "Analysis complete!", count |-> 0]
    /\ isAnalyzing' = FALSE
    /\ UNCHANGED <<inputVars, recruiterVars, bulkVars, engineVars, gateVars, authVars,
                   dashboard, jdInput, selectedFile, selectedCandidate, expandedExplanation>>

\* a rejection handled without the `finally`
AnalyzeRejectNoFinally ==
    /\ isAnalyzing
    /\ toast' = [title |-> "Analysis failed", count |-> 0]
    /\ UNCHANGED <<inputVars, recruiterVars, bulkVars, engineVars, gateVars, authVars, pageVars>>

\* the request is rejected (an error status, the network, the 120 s timeout,
\* the gate of directMatch): `catch`, and `finally`
AnalyzeReject ==
    /\ isAnalyzing
    /\ toast' = [title |-> "Analysis failed", count |-> 0]
    /\ isAnalyzing' = FALSE
    /\ UNCHANGED <<inputVars, recruiterVars, bulkVars, engineVars, gateVars, authVars,
                   dashboard, jdInput, selectedFile, analysis, selectedCandidate,
                   expandedExplanation>>

NextAnalyze ==
    \/ \E m \in {"upload", "write"} : SetJdMode(m)
    \/ handleJDFileSelect
    \/ \E t \in JDInputs : SetJdText(t)
    \/ handleFileSelect
    \/ handleAnalyze
    \/ \E r \in MatchResults : AnalyzeResolve(r)
    \/ AnalyzeReject

---------------------------------------------------------------------------
(* Claims about the bulk dashboard *)

\* C7 (as claimed): whenever a report is shown, its best_candidate is the
\* first, rank-1 element of candidates and has the highest overall_score.
C7_BestCandidateIsTopRanked ==
    (showResults /\ bulkResult # <<>>) =>
        LET r == bulkResult[1]
        IN /\ r.best_candidate # <<>>
           /\ r.candidates # <<>>
           /\ r.best_candidate[1] = r.candidates[1]
           /\ r.best_candidate[1].rank = 1
           /\ \A k \in 1..Len(r.candidates) :
                 r.candidates[k].overall_score <= r.best_candidate[1].overall_score

---------------------------------------------------------------------------
(* match_one (design document, 4.1 to 4.5) *)

\* the words a resume and a JD are written with
ResumeVocabulary == {"Python", "py", "docker", "the"}
JDVocabulary == {"python", "docker", "teamwork", "preferred"}

Stopwords == {"the"}

\* SkillTaxonomy: canonical name -> category and aliases
SkillTaxonomy ==
    [python   |-> [category |-> "technical", aliases |-> {"py"}],
     docker   |-> [category |-> "technical", aliases |-> {}],
     teamwork |-> [category |-> "soft", aliases |-> {}]]

CanonicalSkills == DOMAIN SkillTaxonomy

\* case folding
Lower(t) == IF t = "Python" THEN "python" ELSE t

\* Normalizer: case folding, then stopword removal
RECURSIVE Normalize(_)
Normalize(text) ==
    IF text = <<>> THEN <<>>
    ELSE (IF Lower(Head(text)) \in Stopwords THEN <<>> ELSE <<Lower(Head(text))>>)
         \o Normalize(Tail(text))

\* extract_skills: an exact hit on a canonical name or an alias contributes the
\* canonical name
extract_skills(tokens) ==
    {c \in CanonicalSkills :
        \E k \in 1..Len(tokens) : tokens[k] = c \/ tokens[k] \in SkillTaxonomy[c].aliases}

\* the place of the first marker phrase of the preferred skills, or past the end
RECURSIVE MarkerAt(_, _)
MarkerAt(tokens, k) ==
    IF k > Len(tokens) THEN k
    ELSE IF tokens[k] = "preferred" THEN k
    ELSE MarkerAt(tokens, k + 1)

\* JD parser: skills behind the marker are preferred, the others required
\* and the experience level and the education level the JD asks for
ParseJD(tokens, level, education) ==
    LET m == MarkerAt(tokens, 1)
    IN [required_skills |-> extract_skills(SubSeq(tokens, 1, m - 1)),
        preferred_skills |-> extract_skills(SubSeq(tokens, m + 1, Len(tokens))),
        experience_level |-> level,
        education_level |-> education]

\* resume parser: the skills, the years of experience and the highest degree
ParseResume(tokens, years, education) ==
    [skills |-> extract_skills(tokens), years |-> years, education |-> education]

\* term frequency: the occurrences of a term in a document
Count(t, tokens) == Cardinality({k \in 1..Len(tokens) : tokens[k] = t})

Terms(tokens) == {tokens[k] : k \in 1..Len(tokens)}

\* smoothed IDF over the corpus of two documents, ln((1 + 2) / (1 + df)) + 1,
\* in tenths: 1.4 for a term of one document, 1.0 for a term of both
Idf(df) == IF df = 2 THEN 10 ELSE 14

Weight(t, tokens, other) ==
    Count(t, tokens) * Idf(IF t \in Terms(other) THEN 2 ELSE 1)

RECURSIVE SumOver(_, _)
SumOver(S, f) ==
    IF S = {} THEN 0
    ELSE LET x == CHOOSE y \in S : TRUE IN f[x] + SumOver(S \ {x}, f)

\* the largest r with r * r <= n
RECURSIVE ISqrtBetween(_, _, _)
ISqrtBetween(n, lo, hi) ==
    IF hi - lo <= 1 THEN lo
    ELSE LET mid == (lo + hi) \div 2
         IN IF mid * mid <= n THEN ISqrtBetween(n, mid, hi) ELSE ISqrtBetween(n, lo, mid)
ISqrt(n) == ISqrtBetween(n, 0, 32768)

\* the integer part of 100^k * (q + r / den)
RECURSIVE Scale(_, _, _, _)
Scale(q, r, den, k) ==
    IF k = 0 THEN q
    ELSE Scale(100 * q + (100 * r) \div den, (100 * r) % den, den, k - 1)

\* cosine similarity of the two TF-IDF vectors, scaled to 0..100 and cut to one
\* decimal: the square root of dot^2 / (|a|^2 * |b|^2)
TfidfSimilarity(a, b) ==
    LET all == Terms(a) \cup Terms(b)
        dot == SumOver(all, [t \in all |-> Weight(t, a, b) * Weight(t, b, a)])
        na == SumOver(all, [t \in all |-> Weight(t, a, b) * Weight(t, a, b)])
        nb == SumOver(all, [t \in all |-> Weight(t, b, a) * Weight(t, b, a)])
    IN IF na = 0 \/ nb = 0 THEN 0
       ELSE 100 * ISqrt(Scale((dot * dot) \div (na * nb), (dot * dot) % (na * nb), na * nb, 3))

\* the scoring weights, in percent
SkillWeightDirect == 70
SkillWeightTfidf == 30
WeightSkill == 50
WeightExperience == 30
WeightEducation == 20

\* |matched required skills| / |required skills| on the scale 0..100, and 100
\* when nothing is required
\* the share of the required skills the resume lacks
DirectSkillMissing(skills, required) ==
    IF required = {} THEN 100000
    ELSE (100000 * Cardinality(required \ skills)) \div Cardinality(required)

DirectSkillMatch(skills, required) ==
    IF required = {} THEN 100000
    ELSE (100000 * Cardinality(skills \cap required)) \div Cardinality(required)

\* the similarity alone, without the direct match
SkillScoreTfidfOnly(direct, tfidf) == tfidf

SkillScore(direct, tfidf) == (direct * SkillWeightDirect + tfidf * SkillWeightTfidf) \div 100

\* the skills of a resume text, the required skills of a JD text, and the
\* skill_score of the pair
SkillsOf(text) == extract_skills(Normalize(text))
RequiredOf(text) == ParseJD(Normalize(text), "unspecified", "unspecified").required_skills
DirectOf(r, j) == DirectSkillMatch(SkillsOf(r), RequiredOf(j))
SimilarityOf(r, j) == TfidfSimilarity(Normalize(r), Normalize(j))
SkillScoreOf(r, j) == SkillScore(DirectOf(r, j), SimilarityOf(r, j))

ExperienceLevels == {"entry", "mid", "senior", "lead", "unspecified"}

\* the least years of a level: entry 0-2, mid 2-5, senior 5-8, lead 8+
ExperienceThreshold(level) ==
    CASE level = "entry" -> 0
      [] level = "mid" -> 2
      [] level = "senior" -> 5
      [] level = "lead" -> 8
      [] OTHER -> 0

\* 100 at or above the threshold, below it linear in the years, down to 0
\* the full score whatever the years are
ExperienceScoreFull(years, level) == 100000

ExperienceScore(years, level) ==
    IF years >= ExperienceThreshold(level) THEN 100000
    ELSE (100000 * years) \div ExperienceThreshold(level)

EducationLevels == {"high_school", "associate", "bachelor", "master", "phd", "unspecified"}

\* high_school < associate < bachelor < master < phd; nothing detected is 0
EducationOrdinal(level) ==
    CASE level = "high_school" -> 1
      [] level = "associate" -> 2
      [] level = "bachelor" -> 3
      [] level = "master" -> 4
      [] level = "phd" -> 5
      [] OTHER -> 0

\* the penalty per ordinal step below the required level, in points
EducationPenalty == 25

Max(a, b) == IF a >= b THEN a ELSE b
Min(a, b) == IF a <= b THEN a ELSE b

\* the penalty without the floor at 0
EducationScoreNoFloor(resumeLevel, required) ==
    IF required = "unspecified" \/ EducationOrdinal(resumeLevel) >= EducationOrdinal(required)
    THEN 100000
    ELSE 100000 - EducationPenalty * 1000
                  * (EducationOrdinal(required) - EducationOrdinal(resumeLevel))

EducationScore(resumeLevel, required) ==
    IF required = "unspecified" \/ EducationOrdinal(resumeLevel) >= EducationOrdinal(required)
    THEN 100000
    ELSE Max(0, 100000 - EducationPenalty * 1000
                          * (EducationOrdinal(required) - EducationOrdinal(resumeLevel)))

\* rounded to one decimal, clamped to 0..100
RoundOneDecimal(x) == ((x + 50) \div 100) * 100
Clamp(x) == Max(0, Min(100000, x))

OverallScore(skill, experience, education) ==
    Clamp(RoundOneDecimal((skill * WeightSkill + experience * WeightExperience
                           + education * WeightEducation) \div 100))

\* Skill-gap analyzer
MatchedSkills(skills, jd) == skills \cap (jd.required_skills \cup jd.preferred_skills)
\* every JD skill reported as missing, the candidate's included
MissingSkillsOfJD(skills, jd) == jd.required_skills \cup jd.preferred_skills

MissingSkills(skills, jd) == (jd.required_skills \cup jd.preferred_skills) \ skills

\* the category of a skill; a skill the taxonomy does not know is technical
Category(skill) ==
    IF skill \in CanonicalSkills THEN SkillTaxonomy[skill].category ELSE "technical"

\* the remediation template of a skill, or the generic one
Template(skill) ==
    IF skill = "docker" THEN "Containerize a sample app and learn Docker Compose."
    ELSE "learn and practice"

\* one recommendation per skill of S, tagged with the priority
RECURSIVE Recommend(_, _)
Recommend(S, priority) ==
    IF S = {} THEN <<>>
    ELSE LET x == CHOOSE y \in S : TRUE
         IN <<[priority |-> priority, skill |-> x, text |-> Template(x)]>>
            \o Recommend(S \ {x}, priority)

\* one entry per missing skill of each list, a skill of both lists twice
RecommendationsPerList(skills, jd) ==
    Recommend(jd.required_skills \ skills, "HIGH")
    \o Recommend(jd.preferred_skills \ skills, "MEDIUM")

\* [HIGH] for the missing required skills, then [MEDIUM] for the missing
\* preferred ones
Recommendations(skills, jd) ==
    Recommend(jd.required_skills \ skills, "HIGH")
    \o Recommend((jd.preferred_skills \ jd.required_skills) \ skills, "MEDIUM")

RECURSIVE Texts(_, _)
Texts(vocabulary, n) ==
    IF n = 0 THEN {<<>>}
    ELSE LET shorter == Texts(vocabulary, n - 1)
         IN shorter \cup {Append(t, w) : t \in {u \in shorter : Len(u) = n - 1}, w \in vocabulary}

ResumeTexts == Texts(ResumeVocabulary, MaxResumeTokens)
JDTexts == Texts(JDVocabulary, MaxJDTokens)

dashboardVars == <<loopVars, bulkVars, gateVars, authVars, pageVars>>

\* match_one(resume_text, jd_text) is called
MatchOneBegin ==
    /\ enginePc = "idle"
    /\ \E r \in ResumeTexts : \E j \in JDTexts :
          /\ resume_text' = r
          /\ jd_text' = j
    /\ enginePc' = "received"
    /\ parsedResume' = NoParsedResume
    /\ parsedJD' = NoParsedJD
    /\ matchResult' = NoMatchResult
    /\ UNCHANGED dashboardVars

\* what the parsers can find in a text beside its skills: the years of
\* experience and the highest degree of a resume, the experience level and the
\* required degree of a JD; a text without words holds none of them
YearsOfExperience == {0, 4, 9}
ResumeDegrees == {"unspecified", "master"}
RequiredDegrees == {"unspecified", "phd"}

YearsIn(text) == IF text = <<>> THEN {0} ELSE YearsOfExperience
DegreesIn(text) == IF text = <<>> THEN {"unspecified"} ELSE ResumeDegrees
LevelsIn(text) == IF text = <<>> THEN {"unspecified"} ELSE ExperienceLevels
RequiredIn(text) == IF text = <<>> THEN {"unspecified"} ELSE RequiredDegrees

\* Normalizer, entity parsers, vectorizer and similarity scorer; the documents
\* are dropped once the entities and the similarity are known
ParseAndVectorize ==
    /\ enginePc = "received"
    /\ LET rt == Normalize(resume_text)
           jt == Normalize(jd_text)
           sim == SimilarityOf(resume_text, jd_text)
           skill == SkillScore(DirectOf(resume_text, jd_text), sim)
       IN /\ matchResult' = [matchResult EXCEPT !.tfidf_similarity = sim,
                                                !.skill_score = skill]
          /\ \E y \in YearsIn(resume_text) : \E e \in DegreesIn(resume_text) :
                parsedResume' = ParseResume(rt, y, e)
          /\ \E l \in LevelsIn(jd_text) : \E q \in RequiredIn(jd_text) :
                parsedJD' = ParseJD(jt, l, q)
    /\ resume_text' = <<>>
    /\ jd_text' = <<>>
    /\ enginePc' = "skills"
    /\ UNCHANGED dashboardVars

\* the years found in the resume (none found counts as 0) against the level
\* found in the JD
ScoreExperience ==
    /\ enginePc = "skills"
    /\ matchResult' = [matchResult EXCEPT
           !.experience_score = ExperienceScore(parsedResume.years, parsedJD.experience_level)]
    /\ enginePc' = "experience"
    /\ UNCHANGED <<dashboardVars, resume_text, jd_text, parsedResume, parsedJD>>

\* the highest degree found in the resume against the level the JD requires
ScoreEducation ==
    /\ enginePc = "experience"
    /\ matchResult' = [matchResult EXCEPT
           !.education_score = EducationScore(parsedResume.education, parsedJD.education_level)]
    /\ enginePc' = "education"
    /\ UNCHANGED <<dashboardVars, resume_text, jd_text, parsedResume, parsedJD>>

\* Score combiner and skill-gap analyzer: the MatchResult is complete
CombineAndAnalyze ==
    /\ enginePc = "education"
    /\ LET missing == MissingSkills(parsedResume.skills, parsedJD)
       IN matchResult' = [matchResult EXCEPT
              !.overall_score = OverallScore(matchResult.skill_score,
                                             matchResult.experience_score,
                                             matchResult.education_score),
              !.matched_skills = MatchedSkills(parsedResume.skills, parsedJD),
              !.missing_skills = missing,
              !.skill_gap = [technical |-> {x \in missing : Category(x) = "technical"},
                             soft |-> {x \in missing : Category(x) = "soft"}],
              !.recommendations = Recommendations(parsedResume.skills, parsedJD)]
    /\ enginePc' = "done"
    /\ UNCHANGED <<dashboardVars, resume_text, jd_text, parsedResume, parsedJD>>

\* the golden case of the design document: what the parsers find in its resume
\* and its JD
GoldenParsedResume ==
    [skills |-> {"python", "django", "rest", "sql"}, years |-> 5, education |-> "bachelor"]
GoldenParsedJD ==
    [required_skills |-> {"python", "django", "rest", "docker", "aws"},
     preferred_skills |-> {"kubernetes", "ci/cd"},
     experience_level |-> "mid", education_level |-> "bachelor"]

\* the TF-IDF similarity of the golden documents depends on the vocabulary of
\* the implementation: any value of the scale
GoldenSimilarities == {0, 42300, 100000}

\* match_one on the golden documents, up to the entities and the similarity
MatchGoldenCase ==
    /\ enginePc = "idle"
    /\ \E sim \in GoldenSimilarities :
          matchResult' = [NoMatchResult EXCEPT
              !.tfidf_similarity = sim,
              !.skill_score = SkillScore(DirectSkillMatch(GoldenParsedResume.skills,
                                                          GoldenParsedJD.required_skills),
                                         sim)]
    /\ parsedResume' = GoldenParsedResume
    /\ parsedJD' = GoldenParsedJD
    /\ enginePc' = "skills"
    /\ UNCHANGED <<dashboardVars, resume_text, jd_text>>

\* the stored resume, the stored job and the response of POST /api/match/analyze
\* as the README documents them
ReadmeParsedResume ==
    [skills |-> {"python", "django", "sql", "git", "rest"},
     years |-> 3, education |-> "bachelor"]
ReadmeParsedJD ==
    [required_skills |-> {"python", "django", "rest", "docker", "aws"},
     preferred_skills |-> {"kubernetes", "ci/cd"},
     experience_level |-> "senior", education_level |-> "bachelor"]
ReadmeMatchResult ==
    [overall_score |-> 68500, skill_score |-> 72000, experience_score |-> 60000,
     education_score |-> 100000, tfidf_similarity |-> 42300,
     matched_skills |-> {"python", "django", "rest", "sql"},
     missing_skills |-> {"docker", "aws", "kubernetes", "ci/cd"},
     skill_gap |-> [technical |-> {"docker", "aws", "kubernetes", "ci/cd"}, soft |-> {}],
     recommendations |->
        <<[priority |-> "HIGH", skill |-> "docker",
           text |-> "Containerize a sample app and learn Docker Compose."],
          [priority |-> "HIGH", skill |-> "aws",
           text |-> "Study for the AWS Cloud Practitioner certification."],
          [priority |-> "MEDIUM", skill |-> "kubernetes",
           text |-> "Complete the Kubernetes basics on Katacoda."],
          [priority |-> "MEDIUM", skill |-> "ci/cd",
           text |-> "Set up a CI/CD pipeline using GitHub Actions or Jenkins."]>>]

\* POST /api/match/analyze on the documented resume_id and job_id answers with
\* the documented result
MatchAnalyze ==
    /\ enginePc = "idle"
    /\ parsedResume' = ReadmeParsedResume
    /\ parsedJD' = ReadmeParsedJD
    /\ matchResult' = ReadmeMatchResult
    /\ enginePc' = "done"
    /\ UNCHANGED <<dashboardVars, resume_text, jd_text>>

\* the MatchResult is handed to the caller; the engine keeps nothing of the
\* request
MatchOneReturn ==
    /\ enginePc = "done"
    /\ enginePc' = "idle"
    /\ parsedResume' = NoParsedResume
    /\ parsedJD' = NoParsedJD
    /\ matchResult' = NoMatchResult
    /\ UNCHANGED <<dashboardVars, resume_text, jd_text>>

NextEngine ==
    \/ MatchOneBegin
    \/ MatchAnalyze
    \/ MatchGoldenCase
    \/ ParseAndVectorize
    \/ ScoreExperience
    \/ ScoreEducation
    \/ CombineAndAnalyze
    \/ MatchOneReturn

SpecEngine == InitLoop /\ [][NextEngine]_vars

Scores(m) ==
    {m.overall_score, m.skill_score, m.experience_score, m.education_score,
     m.tfidf_similarity}

\* C8: each of overall_score, skill_score, experience_score, education_score and
\* tfidf_similarity of a MatchResult lies in [0, 100], empty texts and empty
\* skill sets included; every intermediate result of the pipeline does too.
C8_ScoresWithinZeroAndHundred ==
    \A x \in Scores(matchResult) : 0 <= x /\ x <= 100000

\* a complete result for a resume without skills against a JD without required
\* skills, whose education penalty exceeds 100 points before the floor
C8_Witness ==
    /\ enginePc = "done"
    /\ parsedResume.skills = {}
    /\ parsedJD.required_skills = {}
    /\ matchResult.education_score = 0
    /\ matchResult.overall_score > 0

\* C9: no skill of a complete MatchResult is both in matched_skills and in
\* missing_skills.
C9_MatchedAndMissingDisjoint ==
    enginePc = "done" => matchResult.matched_skills \cap matchResult.missing_skills = {}

\* a complete result of the pipeline with a matched and a missing skill
C9_Witness ==
    /\ enginePc = "done"
    /\ matchResult # ReadmeMatchResult
    /\ matchResult.matched_skills # {}
    /\ matchResult.missing_skills # {}
    /\ parsedResume.skills \ matchResult.matched_skills # {}

\* C10 (as claimed): matched_skills and missing_skills of a complete MatchResult
\* together are exactly the required and preferred skills of the JD, and
\* matched_skills holds no skill the JD does not list.
C10_MatchedAndMissingCoverJD ==
    enginePc = "done" =>
        LET listed == parsedJD.required_skills \cup parsedJD.preferred_skills
        IN /\ matchResult.matched_skills \cup matchResult.missing_skills = listed
           /\ matchResult.matched_skills \subseteq listed

\* C12 (as claimed): overall_score of a complete MatchResult is
\* skill_score * 0.50 + experience_score * 0.30 + education_score * 0.20 of the
\* same result, rounded to one decimal and clamped to [0, 100].
C12_OverallIsWeightedSum ==
    enginePc = "done" =>
        matchResult.overall_score = OverallScore(matchResult.skill_score,
                                                 matchResult.experience_score,
                                                 matchResult.education_score)

\* C13 (as claimed): skill_score of a complete MatchResult is
\* direct_skill_match * 0.70 + tfidf_similarity * 0.30, direct_skill_match being
\* the share of the JD's required skills the resume has (100 when the JD requires
\* none), and lies in [0, 100].
C13_SkillScoreIsBlend ==
    enginePc = "done" =>
        /\ matchResult.skill_score =
              SkillScore(DirectSkillMatch(parsedResume.skills, parsedJD.required_skills),
                         matchResult.tfidf_similarity)
        /\ 0 <= matchResult.skill_score
        /\ matchResult.skill_score <= 100000

GoldenCase ==
    /\ enginePc = "done"
    /\ parsedResume = GoldenParsedResume
    /\ parsedJD = GoldenParsedJD
    /\ matchResult.experience_score = 100000
    /\ matchResult.education_score = 100000

EmptyResumeCase ==
    /\ enginePc = "done"
    /\ parsedResume = NoParsedResume
    /\ matchResult.tfidf_similarity = 0
    /\ parsedJD.required_skills \cup parsedJD.preferred_skills # {}

\* at or near 0: within five points of 0
NearZero(score) == 0 <= score /\ score <= 5000

C17_OneRecommendationPerMissingSkill ==
    enginePc = "done" =>
        LET recs == matchResult.recommendations
        IN /\ Len(recs) = Cardinality(matchResult.missing_skills)
           /\ {recs[k].skill : k \in 1..Len(recs)} = matchResult.missing_skills
           /\ \A k \in 1..Len(recs) :
                 /\ recs[k].priority =
                       (IF recs[k].skill \in parsedJD.required_skills THEN "HIGH" ELSE "MEDIUM")
                 /\ recs[k].text # ""
           /\ \A a, b \in 1..Len(recs) :
                 (recs[a].priority = "HIGH" /\ recs[b].priority = "MEDIUM") => a < b

\* a result of the pipeline with a [HIGH] and a [MEDIUM] entry, one of them with
\* the generic text
C17_Witness ==
    /\ enginePc = "done"
    /\ matchResult # ReadmeMatchResult
    /\ LET recs == matchResult.recommendations
       IN /\ \E a, b \in 1..Len(recs) :
                recs[a].priority = "HIGH" /\ recs[b].priority = "MEDIUM"
          /\ \E k \in 1..Len(recs) : recs[k].text = Template("python")

---------------------------------------------------------------------------
(* The render gate: useRenderGate, RenderOverlay, window.__unlock *)

\* a gate that compares the seed only
IntegritySeedOnly(seed, key) == seed = Expected

\* neither _ig() !== _EXPECTED nor _sk() !== _EXPECTED
IntegrityOk(seed, key) == seed = Expected /\ key = Expected

\* the keys tried in the console: the password, nothing, and the stored codes
Keys == {ExpectedPwd, <<>>, Pw}

\* the first render (ok is false, App returns null), the mount effects of
\* useRenderGate, and, when they open the gate, the render of the tree with
\* RenderOverlay and its effects
MountApp ==
    /\ ~appMounted
    /\ ~bodyEmpty
    /\ appMounted' = TRUE
    /\ IF ~IntegrityOk(ig, sk)
       THEN /\ ok' = FALSE
            /\ bodyEmpty' = (ig = Expected)
            /\ UNCHANGED <<overlay, unlocked, gateTimer, gateInterval, pollActive, observer>>
       ELSE /\ ok' = TRUE
            /\ gateTimer' = TRUE
            /\ gateInterval' = TRUE
            /\ unlocked' = rvUnlocked
            /\ overlay' = IF rvUnlocked THEN "absent" ELSE "present"
            /\ pollActive' = TRUE
            /\ observer' = ~rvUnlocked
            /\ UNCHANGED bodyEmpty
    /\ UNCHANGED <<loopVars, bulkVars, engineVars, pageVars, authVars, ig, sk, rvUnlocked, overlayHidden, mutations, network,
                   unlockHistory>>

\* window.__unlock(key) in the console: _ul
Unlock(key) ==
    /\ ~mutations
    /\ IF key = ExpectedPwd
       THEN /\ rvUnlocked' = TRUE
            /\ overlay' = "absent"
            /\ overlayHidden' = {}
            /\ mutations' = (observer /\ overlay # "absent")
            /\ unlockHistory' =
                  IF overlay # "absent" /\ unlockHistory = "locked"
                  THEN "unlocked" ELSE unlockHistory
       ELSE UNCHANGED <<rvUnlocked, overlay, overlayHidden, mutations, unlockHistory>>
    /\ UNCHANGED <<loopVars, bulkVars, engineVars, pageVars, authVars, ig, sk, bodyEmpty, appMounted, ok, unlocked, gateTimer,
                   gateInterval, pollActive, observer, network>>

\* the overlay node is deleted in the developer tools
RemoveOverlay ==
    /\ ~mutations
    /\ overlay # "absent"
    /\ overlay' = "absent"
    /\ overlayHidden' = {}
    /\ mutations' = observer
    /\ UNCHANGED <<loopVars, bulkVars, engineVars, pageVars, authVars, ig, sk, rvUnlocked, bodyEmpty, appMounted, ok, unlocked,
                   gateTimer, gateInterval, pollActive, observer, network, unlockHistory>>

\* the children of the overlay node are deleted in the developer tools: a
\* subtree mutation, after which the node itself is still there
RemoveOverlayChildren ==
    /\ ~mutations
    /\ overlay = "present"
    /\ overlay' = "childless"
    /\ mutations' = observer
    /\ UNCHANGED <<loopVars, bulkVars, engineVars, pageVars, authVars, ig, sk, rvUnlocked, overlayHidden, bodyEmpty,
                   appMounted, ok, unlocked, gateTimer, gateInterval, pollActive, observer,
                   network, unlockHistory>>

\* the style properties the 2 s handler of RenderOverlay looks at
StyleProperties == {"display", "visibility", "opacity"}

\* the overlay node is hidden through one style property in the developer
\* tools; a style change is no childList mutation
HideOverlay(property) ==
    /\ ~mutations
    /\ overlay # "absent"
    /\ property \notin overlayHidden
    /\ overlayHidden' = overlayHidden \cup {property}
    /\ UNCHANGED <<loopVars, bulkVars, engineVars, pageVars, authVars, ig, sk, rvUnlocked, overlay, bodyEmpty, appMounted, ok,
                   unlocked, gateTimer, gateInterval, pollActive, observer, mutations,
                   network, unlockHistory>>

\* the 2 s interval of RenderOverlay: every hiding property is cleared
RestoreStyle ==
    /\ ~mutations
    /\ observer
    /\ overlay # "absent"
    /\ overlayHidden # {}
    /\ overlayHidden' = {}
    /\ UNCHANGED <<loopVars, bulkVars, engineVars, pageVars, authVars, ig, sk, rvUnlocked, overlay, bodyEmpty, appMounted, ok,
                   unlocked, gateTimer, gateInterval, pollActive, observer, mutations,
                   network, unlockHistory>>

\* the MutationObserver callback, run before any timer once the script that
\* changed the DOM has ended: without the overlay node the page is reloaded,
\* and the reloaded page starts from nothing
ObserverCallback ==
    /\ mutations
    /\ mutations' = FALSE
    /\ IF overlay = "absent"
       THEN /\ rvUnlocked' = FALSE
            /\ overlayHidden' = {}
            /\ bodyEmpty' = FALSE
            /\ appMounted' = FALSE
            /\ ok' = FALSE
            /\ unlocked' = FALSE
            /\ gateTimer' = FALSE
            /\ gateInterval' = FALSE
            /\ pollActive' = FALSE
            /\ observer' = FALSE
            /\ unlockHistory' = IF unlockHistory = "unlocked" THEN "reloaded" ELSE unlockHistory
            /\ saving' = FALSE
       ELSE UNCHANGED <<rvUnlocked, overlayHidden, bodyEmpty, appMounted, ok, unlocked,
                        gateTimer, gateInterval, pollActive, observer, unlockHistory, saving>>
    /\ UNCHANGED <<loopVars, bulkVars, engineVars, pageVars, ig, sk, overlay, network,
                   authToken, storedUser, loggedOut, requestAuth>>

\* the 1 s poll of RenderOverlay
UnlockPoll ==
    /\ ~mutations
    /\ pollActive
    /\ IF rvUnlocked
       THEN /\ unlocked' = TRUE
            /\ pollActive' = FALSE
            /\ observer' = FALSE
            /\ overlay' = "absent"
       ELSE UNCHANGED <<unlocked, pollActive, observer, overlay>>
    /\ UNCHANGED <<loopVars, bulkVars, engineVars, pageVars, authVars, ig, sk, rvUnlocked, overlayHidden, bodyEmpty, appMounted, ok,
                   gateTimer, gateInterval, mutations, network, unlockHistory>>

\* a gate that asks for the node only
OverlayNodeExists(node) == node # "absent"

\* !node || node.children.length === 0 is false
OverlayIntact(node) == node = "present"

\* the 1.5 s timeout of useRenderGate; emptying the body removes the overlay
\* node too, which the observer is told of before React renders again
GateTimeout ==
    /\ ~mutations
    /\ gateTimer
    /\ gateTimer' = FALSE
    /\ IF rvUnlocked \/ OverlayIntact(overlay)
       THEN UNCHANGED <<ok, bodyEmpty, overlay, overlayHidden, gateInterval, pollActive,
                        mutations>>
       ELSE /\ ok' = FALSE
            /\ bodyEmpty' = TRUE
            /\ overlay' = "absent"
            /\ overlayHidden' = {}
            /\ gateInterval' = FALSE
            /\ pollActive' = FALSE
            /\ mutations' = observer
    /\ UNCHANGED <<loopVars, bulkVars, engineVars, pageVars, authVars, ig, sk, rvUnlocked, appMounted, unlocked,
                   observer, network, unlockHistory>>

\* the 3 s interval of useRenderGate
GateInterval ==
    /\ ~mutations
    /\ gateInterval
    /\ IF rvUnlocked \/ OverlayIntact(overlay)
       THEN UNCHANGED <<bodyEmpty, overlay, overlayHidden, gateInterval, mutations>>
       ELSE /\ bodyEmpty' = TRUE
            /\ overlay' = "absent"
            /\ overlayHidden' = {}
            /\ gateInterval' = FALSE
            /\ mutations' = observer
    /\ UNCHANGED <<loopVars, bulkVars, engineVars, pageVars, authVars, ig, sk, rvUnlocked, appMounted, ok,
                   unlocked, gateTimer, pollActive, observer, network, unlockHistory>>

\* const _PV = _sk(); if (_PV !== 0xE992) return null;
DashboardRenders(key) == key = Expected

\* if (_sk() !== 0xE992) throw new Error(...): only the session key is looked at
DirectMatchRejects(seed, key) == key # Expected

\* a dashboard of the rendered tree calls matchService.directMatch, which
\* throws or posts the request
GatedDirectMatch ==
    /\ ~mutations
    /\ ok
    /\ ~bodyEmpty
    /\ DashboardRenders(sk)
    /\ network' = (network \/ ~DirectMatchRejects(ig, sk))
    /\ requestAuth' = IF DirectMatchRejects(ig, sk) THEN requestAuth
                      ELSE IF authToken # "null" THEN "Bearer" ELSE "none"
    /\ UNCHANGED <<loopVars, bulkVars, engineVars, pageVars, authToken, storedUser, saving, loggedOut, ig, sk, rvUnlocked, overlay, overlayHidden, bodyEmpty,
                   appMounted, ok, unlocked, gateTimer, gateInterval, pollActive, observer,
                   mutations, unlockHistory>>

\* the Auth page stores the token and the user of a login or registration
StoreSession ==
    /\ ~mutations
    /\ ok
    /\ ~bodyEmpty
    /\ authToken = "null"
    /\ authToken' = "token"
    /\ storedUser' = "user"
    /\ loggedOut' = FALSE
    /\ requestAuth' = "no request"
    /\ UNCHANGED <<loopVars, bulkVars, engineVars, pageVars, gateVars, saving>>

\* authService.logout()
logout ==
    /\ ~mutations
    /\ ok
    /\ ~bodyEmpty
    /\ authToken' = "null"
    /\ storedUser' = "null"
    /\ loggedOut' = TRUE
    /\ requestAuth' = "no request"
    /\ UNCHANGED <<loopVars, bulkVars, engineVars, pageVars, gateVars, saving>>

\* handleSave of a profile page, up to its await of the 800 ms timer; the
\* profile routes are protected
handleSave ==
    /\ ~mutations
    /\ ok
    /\ ~bodyEmpty
    /\ authToken # "null"
    /\ ~saving
    /\ saving' = TRUE
    /\ UNCHANGED <<loopVars, bulkVars, engineVars, pageVars, gateVars, authToken, storedUser, loggedOut,
                   requestAuth>>

\* handleSave after the timer: localStorage.setItem("user", ...) with the user
\* of the render that started it
handleSaveResumes ==
    /\ ~mutations
    /\ saving
    /\ saving' = FALSE
    /\ storedUser' = "user"
    /\ UNCHANGED <<loopVars, bulkVars, engineVars, pageVars, gateVars, authToken, loggedOut, requestAuth>>

\* authService.getUser() and authService.isAuthenticated()
getUser == storedUser
isAuthenticated == authToken # "null"

\* the shipped build, and builds with an altered seed, an altered key, or both
InitGate ==
    /\ jdMode = "upload"
    /\ selectedJDFile = "null"
    /\ jdText = ""
    /\ resumeFiles = <<>>
    /\ isProcessing = FALSE
    /\ processingStatus = 0
    /\ showResults = FALSE
    /\ filterScore = 0
    /\ filterSkill = ""
    /\ candidates = <<>>
    /\ toast = NoToast
    /\ runFiles = <<>>
    /\ ranked = <<>>
    /\ settled = {}
    /\ hung = {}
    /\ uploadProgress = 0
    /\ processingPhase = ""
    /\ bulkResult = <<>>
    /\ bulkRequest = NoRequest
    /\ serverSlots = <<>>
    /\ enginePc = "idle"
    /\ resume_text = <<>>
    /\ jd_text = <<>>
    /\ parsedResume = NoParsedResume
    /\ parsedJD = NoParsedJD
    /\ matchResult = NoMatchResult
    /\ ig \in {Ig, AlteredIg}
    /\ sk \in {Sk, AlteredSk}
    /\ PageLoaded
    /\ network = FALSE
    /\ unlockHistory = "locked"
    /\ authToken = "null"
    /\ storedUser = "null"
    /\ saving = FALSE
    /\ loggedOut = FALSE
    /\ requestAuth = "no request"
    /\ dashboard = "loop"
    /\ jdInput = "no request"
    /\ selectedFile = "null"
    /\ isAnalyzing = FALSE
    /\ analysis = <<>>
    /\ selectedCandidate = <<>>
    /\ expandedExplanation = 0

NextGate ==
    \/ MountApp
    \/ \E key \in Keys : Unlock(key)
    \/ RemoveOverlay
    \/ RemoveOverlayChildren
    \/ \E property \in StyleProperties : HideOverlay(property)
    \/ RestoreStyle
    \/ ObserverCallback
    \/ UnlockPoll
    \/ GateTimeout
    \/ GateInterval
    \/ GatedDirectMatch
    \/ StoreSession
    \/ logout
    \/ handleSave
    \/ handleSaveResumes

SpecGate == InitGate /\ [][NextGate]_vars

---------------------------------------------------------------------------
(* Claims about the render gate *)

\* C18: once window.__unlock was called with the right key while the overlay
\* was mounted, the unlocked flag stays set, the overlay stays away, the page
\* is never reloaded and the body is never emptied.
C18_UnlockedOverlayStaysHidden ==
    unlockHistory # "locked" =>
        /\ unlockHistory = "unlocked"
        /\ rvUnlocked
        /\ overlay = "absent"
        /\ ~bodyEmpty

C20_ShippedValuesPassEveryGate ==
    /\ Ig = Expected
    /\ Sk = Expected
    /\ (ig = Ig /\ sk = Sk) =>
          /\ IntegrityOk(ig, sk)
          /\ DashboardRenders(sk)
          /\ ~DirectMatchRejects(ig, sk)
          /\ (appMounted /\ ~bodyEmpty) => ok

C20_Witness ==
    /\ ig = Ig /\ sk = Sk
    /\ appMounted /\ ok
    /\ network

\* C21: with the pipeline intact (_sk() = 0xE992) _dp() is 5000, _ts() is
\* strictly positive, and the Axios client's timeout is 60000 ms, not 1 ms.
C21_PortAndTimeoutOfIntactPipeline ==
    sk = Expected =>
        /\ Dp(sk) = 5000
        /\ Ts(sk) > 0
        /\ ClientTimeout(sk) = 60000

C21_Witness ==
    /\ sk = Expected
    /\ Dp(sk) = 5000
    /\ network

\* C22: at a gate check (the 1.5 s check or a 3 s tick) the body is emptied
\* when the license is not unlocked and the overlay node is missing or has no
\* children, and only then; after the check the page is unlocked, or shows an
\* intact overlay, or has an empty body.
C22_GateCheckEmptiesBodyOnlyWhileLocked ==
    [][(GateTimeout \/ GateInterval) =>
         /\ bodyEmpty' = (bodyEmpty \/ (~rvUnlocked /\ overlay # "present"))
         /\ rvUnlocked' \/ overlay' = "present" \/ bodyEmpty']_vars

C22_Witness ==
    /\ ig = Expected /\ sk = Expected
    /\ ~rvUnlocked
    /\ bodyEmpty

\* C23: after authService.logout(), until a new token is stored,
\* isAuthenticated() is false, getUser() is null and no request sent carries
\* an Authorization header; and the last request sent carries Bearer <token>
\* only if localStorage then held auth_token.
C23_LoggedOutUntilNewToken ==
    /\ loggedOut =>
          /\ ~isAuthenticated
          /\ getUser = "null"
          /\ requestAuth # "Bearer"
    /\ requestAuth = "Bearer" => isAuthenticated

---------------------------------------------------------------------------
(* The three dashboards, one per behaviour *)

Dashboards == {"loop", "bulk", "candidate"}

InitRuns ==
    /\ jdMode = "upload"
    /\ selectedJDFile = "null"
    /\ jdText = ""
    /\ resumeFiles = <<>>
    /\ isProcessing = FALSE
    /\ processingStatus = 0
    /\ showResults = FALSE
    /\ filterScore = 0
    /\ filterSkill = ""
    /\ candidates = <<>>
    /\ toast = NoToast
    /\ runFiles = <<>>
    /\ ranked = <<>>
    /\ settled = {}
    /\ hung = {}
    /\ uploadProgress = 0
    /\ processingPhase = ""
    /\ bulkResult = <<>>
    /\ bulkRequest = NoRequest
    /\ serverSlots = <<>>
    /\ enginePc = "idle"
    /\ resume_text = <<>>
    /\ jd_text = <<>>
    /\ parsedResume = NoParsedResume
    /\ parsedJD = NoParsedJD
    /\ matchResult = NoMatchResult
    /\ ig = Ig
    /\ sk = Sk
    /\ PageLoaded
    /\ network = FALSE
    /\ unlockHistory = "locked"
    /\ authToken = "null"
    /\ storedUser = "null"
    /\ saving = FALSE
    /\ loggedOut = FALSE
    /\ requestAuth = "no request"
    /\ dashboard \in Dashboards
    /\ jdInput = "no request"
    /\ selectedFile = "null"
    /\ isAnalyzing = FALSE
    /\ analysis = <<>>
    /\ selectedCandidate = <<>>
    /\ expandedExplanation = 0

NextRuns ==
    \/ dashboard = "loop" /\ NextLoop
    \/ dashboard = "bulk" /\ NextBulk
    \/ dashboard = "candidate" /\ NextAnalyze

SpecRuns == InitRuns /\ [][NextRuns]_vars

\* The event loop runs a timer that is due: the timeout of the request in
\* flight fires and the request is rejected.
FairSpecRuns ==
    /\ SpecRuns
    /\ \A i \in 1..MaxResumes : WF_vars(DirectMatchTimeout(i))
    /\ WF_vars(BulkReject)
    /\ WF_vars(AnalyzeReject)

---------------------------------------------------------------------------
(* Claims about the dashboards' runs *)

\* C26: in the bulk dashboard, whenever results are shown bulkResult is set,
\* and the candidate of the detail modal is one of the candidates of the
\* batch that is displayed.
C26_ShownResultsAndDetailAreOfOneBatch ==
    /\ showResults => bulkResult # <<>>
    /\ isProcessing => (~showResults /\ bulkResult = <<>>)
    /\ (showResults /\ selectedCandidate # <<>>) =>
          \E k \in 1..Len(bulkCandidates) : bulkCandidates[k] = selectedCandidate[1]

\* C24: handleAnalyze, handleBulkRank and handleRankCandidates send no request
\* and leave the busy flag and the displayed results as they are when no
\* resume is selected or queued, or when the JD of the current mode is absent
\* (no file in upload mode, blank text in write mode); the JD of a request
\* they send is the one of the current jdMode.
C24_NoRequestWithoutInputs ==
    [][(handleAnalyze \/ handleBulkRank \/ handleRankCandidates) =>
         /\ (\/ (IF dashboard = "candidate" THEN selectedFile = "null"
                                             ELSE Len(resumeFiles) = 0)
             \/ (IF jdMode = "upload" THEN selectedJDFile = "null"
                                      ELSE jdText \in {"", " "}))
            => UNCHANGED <<isProcessing, isAnalyzing, showResults, candidates, bulkResult,
                           analysis, jdInput, bulkRequest, runFiles, processingStatus,
                           processingPhase, uploadProgress>>
         /\ (isProcessing' # isProcessing \/ isAnalyzing' # isAnalyzing)
            => jdInput' = (IF jdMode = "upload" THEN selectedJDFile ELSE "jd")]_vars

C24_Witness ==
    /\ toast.title = "No job description"
    /\ jdMode = "write"
    /\ jdText = " "
    /\ selectedFile # "null"
    /\ ~isAnalyzing

\* C25: every started analysis or ranking run ends with its busy flag
\* cleared, the status and phase texts empty and the upload progress 0.
C25_RunEndsWithBusyFlagCleared ==
    (isProcessing \/ isAnalyzing) ~>
        /\ ~isProcessing
        /\ ~isAnalyzing
        /\ processingStatus = 0
        /\ processingPhase = ""
        /\ uploadProgress = 0

C25_Witness ==
    /\ ~isProcessing
    /\ ~isAnalyzing
    /\ processingPhase = ""
    /\ uploadProgress = 0
    /\ toast.title \in {"Analysis failed", "Bulk matching failed"}

====
